---- MODULE Spec2Model ----
(***************************************************************************)
(* mpld3/_objects.py: the D3Figure / D3Axes / D3Grid / D3Line2D / D3Text   *)
(* scene graph built from a matplotlib figure, the script it exports       *)
(* (html), and the run of that script and of its zoom handlers in a page.  *)
(*                                                                         *)
(* Identifiers (figid, axid, lineid, the names of script variables, class  *)
(* tokens) are strings built as the code builds them: by concatenation     *)
(* (\o), with str(i) the decimal expansion of i.  Attribute values read    *)
(* from matplotlib (line style, marker, text content) are strings too;     *)
(* Python's None is NoneValue.                                             *)
(***************************************************************************)
EXTENDS Integers, Sequences, FiniteSets, TLC

VARIABLES
    fig,        \* the matplotlib figure the process holds (the input)
    rng,        \* the tokens uuid.uuid4() is still to return, in order
    figures,    \* the D3Figure objects constructed so far, in order
    warned,     \* the warnings issued by warnings.warn, in order
    bundles,    \* bundles[f]: <<>> or <<the script returned by figures[f].html()>>
    dom,        \* dom[f]: <<>> or <<the document built by running bundles[f]>>
    event,      \* <<>> or <<the last zoom event delivered>>
    log         \* the instructions the last zoom handler run executed, in order

vars == <<fig, rng, figures, warned, bundles, dom, event, log>>

----------------------------------------------------------------------------
(* Bounds of the model *)

MaxFigs == 2        \* D3Figure objects constructed in one process
MaxAxes == 2        \* axes of a figure
MaxLines == 2       \* lines of an axes
MaxTexts == 1       \* text annotations of an axes
IdMaxAxes == 11     \* axes of a figure, in the specification of the ids
IdMaxLines == 11    \* lines of an axes, in the specification of the ids

(* uuid.uuid4() rendered as hex without dashes has 32 characters *)
UuidHexLen == 32

NoneValue == "<None>"

----------------------------------------------------------------------------
(* Python helpers *)

Digit == <<"0", "1", "2", "3", "4", "5", "6", "7", "8", "9">>

(* str(i) of a non-negative integer: its decimal digits *)
RECURSIVE str(_)
str(i) == IF i < 10 THEN Digit[i + 1]
          ELSE str(i \div 10) \o Digit[(i % 10) + 1]

(* '\n'.join(parts) of instruction lists: the parts one after another *)
RECURSIVE join(_)
join(parts) == IF parts = <<>> THEN <<>> ELSE Head(parts) \o join(Tail(parts))

(* [f(x) for x in s] *)
Map(s, f(_)) == [k \in 1..Len(s) |-> f(s[k])]

Range(s) == {s[k] : k \in 1..Len(s)}

(* c repeated n times *)
RECURSIVE Repeat(_, _)
Repeat(c, n) == IF n = 0 THEN "" ELSE c \o Repeat(c, n - 1)

(* tokens uuid4 can return: 32 hexadecimal characters each *)
HexToken(c, d) == Repeat(c, UuidHexLen - 1) \o d

Tokens == <<HexToken("a", "1"), HexToken("1", "1"), HexToken("1", "a")>>

FigIds == Range(Tokens)

(* the streams of tokens uuid4 may return in one process: tokens are taken *)
(* not to repeat (a repeat has probability 2^-122)                         *)
RngStreams == {r \in [1..MaxFigs -> FigIds] :
                 \A i, j \in 1..MaxFigs : i # j => r[i] # r[j]}

(* two of these streams: the tokens in the order of Tokens, and reversed *)
PageRngStreams ==
    {[k \in 1..MaxFigs |-> Tokens[k]],
     [k \in 1..MaxFigs |-> Tokens[Len(Tokens) + 1 - k]]}

(* D3Figure.generate_figid: str(uuid.uuid4()).replace('-', '') *)
generate_figid == Head(rng)

----------------------------------------------------------------------------
(* One instruction of the exported script.  op: what it does; target: the  *)
(* script variable it is applied to; cls: the class tokens it gives the    *)
(* node it appends, or the class tokens its selector asks for; text: the   *)
(* content of an appended text node.                                       *)

Instr(op, target, cls, text) ==
    [op |-> op, target |-> target, cls |-> cls, text |-> text]

(* the names the preamble of an axes assigns: the group that carries the  *)
(* zoom behaviour and the tick axes, and the clipped group of the elements *)
BaseVar(axid) == "baseaxes_" \o axid

ClipVar(axid) == "axes_" \o axid

----------------------------------------------------------------------------
(* D3Line2D *)

D3Line2D(axid, line, i) ==
    [lineid |-> axid \o str(i), axid |-> axid, line |-> line]

has_line_NoCapital(l) ==
    l.line.linestyle \notin {"", " ", "none", NoneValue}

has_line(l) ==
    l.line.linestyle \notin {"", " ", "None", "none", NoneValue}

has_points(l) ==
    l.line.marker \notin {"", " ", "None", "none", NoneValue}

POINTS_ZOOM(l) ==
    <<Instr("selectAll", ClipVar(l.axid), {"points" \o l.lineid}, "")>>

LINE_ZOOM(l) ==
    <<Instr("select", ClipVar(l.axid), {"line" \o l.lineid}, "")>>

D3Line2D_zoom_Swapped(l) ==
    (IF has_line(l) THEN POINTS_ZOOM(l) ELSE <<>>)
    \o (IF has_points(l) THEN LINE_ZOOM(l) ELSE <<>>)

D3Line2D_zoom(l) ==
    (IF has_points(l) THEN POINTS_ZOOM(l) ELSE <<>>)
    \o (IF has_line(l) THEN LINE_ZOOM(l) ELSE <<>>)

DATA_TEMPLATE(l) ==
    <<Instr("var", "data_" \o l.lineid, {}, "")>>

POINTS_TEMPLATE(l) ==
    <<Instr("append", ClipVar(l.axid), {"points" \o l.lineid}, "")>>

LINE_TEMPLATE(l) ==
    <<Instr("var", "line_" \o l.lineid, {}, ""),
      Instr("append", ClipVar(l.axid), {"line" \o l.lineid}, "")>>

D3Line2D_html(l) ==
    DATA_TEMPLATE(l)
    \o (IF has_points(l) THEN POINTS_TEMPLATE(l) ELSE <<>>)
    \o (IF has_line(l) THEN LINE_TEMPLATE(l) ELSE <<>>)

----------------------------------------------------------------------------
(* D3Grid *)

D3Grid(axid, ax) == [axid |-> axid, ax |-> ax]

XGRID_TEMPLATE(g) ==
    <<Instr("append", ClipVar(g.axid),
            {"axes" \o g.axid, "x", "grid"}, "")>>

YGRID_TEMPLATE(g) ==
    <<Instr("append", ClipVar(g.axid),
            {"axes" \o g.axid, "y", "grid"}, "")>>

XZOOM(g) == <<Instr("select", ClipVar(g.axid), {"x", "grid"}, "")>>

YZOOM(g) == <<Instr("select", ClipVar(g.axid), {"y", "grid"}, "")>>

D3Grid_zoom(g) ==
    (IF g.ax.xgrid THEN XZOOM(g) ELSE <<>>)
    \o (IF g.ax.ygrid THEN YZOOM(g) ELSE <<>>)

D3Grid_html_XFlagOnly(g) ==
    (IF g.ax.xgrid THEN XGRID_TEMPLATE(g) ELSE <<>>)
    \o (IF g.ax.xgrid THEN YGRID_TEMPLATE(g) ELSE <<>>)

D3Grid_html(g) ==
    (IF g.ax.xgrid THEN XGRID_TEMPLATE(g) ELSE <<>>)
    \o (IF g.ax.ygrid THEN YGRID_TEMPLATE(g) ELSE <<>>)

----------------------------------------------------------------------------
(* D3Text.  A matplotlib text object is [role, text]: role tells which     *)
(* object of the axes it is (the code compares objects with `is`).         *)

D3Text(axid, ax, text) == [axid |-> axid, ax |-> ax, text |-> text]

TEXT_TEMPLATE(t) ==
    <<Instr(IF t.text = t.ax.ylabel THEN "append-shifted" ELSE "append",
            "canvas", {"axes-text"}, t.text.text)>>

D3Text_html_Always(t) == TEXT_TEMPLATE(t)

D3Text_html(t) == IF t.text.text = "" THEN <<>> ELSE TEXT_TEMPLATE(t)

(* D3Base.zoom, which D3Text inherits *)
D3Base_zoom(t) == <<>>

----------------------------------------------------------------------------
(* D3Axes *)

(* the attributes D3Axes.__init__ tests for content it does not draw *)
WarnAttrs == <<"images", "collections", "containers",
               "artists", "patches", "tables">>

(* the warnings of D3Axes.__init__, each named by the kind it reports *)
D3Axes_warnings_PerItem(ax) ==
    join([k \in 1..Len(WarnAttrs) |->
            [n \in 1..ax.unsupported[WarnAttrs[k]] |-> WarnAttrs[k]]])
    \o (IF ax.legend_ # NoneValue THEN <<"legend">> ELSE <<>>)

D3Axes_warnings(ax) ==
    join([k \in 1..Len(WarnAttrs) |->
            IF ax.unsupported[WarnAttrs[k]] > 0 THEN <<WarnAttrs[k]>> ELSE <<>>])
    \o (IF ax.legend_ # NoneValue THEN <<"legend">> ELSE <<>>)

D3Axes_SharedId(figid, ax, i) ==
    LET axid == figid
    IN  [axid  |-> axid,
         ax    |-> ax,
         lines |-> [j \in 1..Len(ax.lines) |-> D3Line2D(axid, ax.lines[j], j)],
         texts |-> [k \in 1..(Len(ax.texts) + 3) |->
                      D3Text(axid, ax,
                             (ax.texts \o <<ax.xlabel, ax.ylabel, ax.title>>)[k])],
         grids |-> <<D3Grid(axid, ax)>>]

D3Axes(figid, ax, i) ==
    LET axid == figid \o str(i)
    IN  [axid  |-> axid,
         ax    |-> ax,
         lines |-> [j \in 1..Len(ax.lines) |-> D3Line2D(axid, ax.lines[j], j)],
         texts |-> [k \in 1..(Len(ax.texts) + 3) |->
                      D3Text(axid, ax,
                             (ax.texts \o <<ax.xlabel, ax.ylabel, ax.title>>)[k])],
         grids |-> <<D3Grid(axid, ax)>>]

(* the two tick redraws that open the zoomed handler *)
XTICKS(axid) == Instr("select", BaseVar(axid), {"x", "axis"}, "")

YTICKS(axid) == Instr("select", BaseVar(axid), {"y", "axis"}, "")

AXES_TEMPLATE_TicksLast(axid, xlim, ylim, elements, element_zooms) ==
    [axid     |-> axid,
     xlim     |-> xlim,
     ylim     |-> ylim,
     elements |-> elements,
     zoomed   |-> element_zooms \o <<XTICKS(axid), YTICKS(axid)>>]

(* the script of one axes: its scales over xlim and ylim, its elements'    *)
(* initial draw, and the body of function zoomed{axid}                     *)
AXES_TEMPLATE(axid, xlim, ylim, elements, element_zooms) ==
    [axid     |-> axid,
     xlim     |-> xlim,
     ylim     |-> ylim,
     elements |-> elements,
     zoomed   |-> <<XTICKS(axid), YTICKS(axid)>> \o element_zooms]

D3Axes_html_LinesFirst(a) ==
    AXES_TEMPLATE(a.axid, a.ax.xlim, a.ax.ylim,
        join(Map(a.lines, D3Line2D_html) \o Map(a.texts, D3Text_html)
             \o Map(a.grids, D3Grid_html)),
        join(Map(a.lines, D3Line2D_zoom) \o Map(a.texts, D3Base_zoom)
             \o Map(a.grids, D3Grid_zoom)))

D3Axes_html(a) ==
    AXES_TEMPLATE(a.axid, a.ax.xlim, a.ax.ylim,
        join(Map(a.grids, D3Grid_html) \o Map(a.lines, D3Line2D_html)
             \o Map(a.texts, D3Text_html)),
        join(Map(a.grids, D3Grid_zoom) \o Map(a.lines, D3Line2D_zoom)
             \o Map(a.texts, D3Base_zoom)))

----------------------------------------------------------------------------
(* D3Figure *)

D3Figure(figid, f) ==
    [figid |-> figid,
     fig   |-> f,
     axes  |-> [i \in 1..Len(f.axes) |-> D3Axes(figid, f.axes[i], i)]]

D3Figure_html(figure) ==
    [figid |-> figure.figid, axes |-> Map(figure.axes, D3Axes_html)]

----------------------------------------------------------------------------
(* The exported script run in a page.  Script variables are function-wide  *)
(* (var) in func{figid}: a name stands for the object last assigned to it. *)

(* the axes whose preamble last assigned the variable name, among the      *)
(* first upto axes of the script; 0 when none has                          *)
ResolveAt(b, name, upto) ==
    LET S == {k \in 1..upto :
                name \in {BaseVar(b.axes[k].axid), ClipVar(b.axes[k].axid)}}
    IN  IF S = {} THEN 0 ELSE CHOOSE k \in S : \A m \in S : m <= k

Resolve(b, name) == ResolveAt(b, name, Len(b.axes))

Node(grp, cls, text) == [grp |-> grp, cls |-> cls, ver |-> 0, text |-> text]

(* the two tick axes the preamble appends to baseaxes_{axid} *)
TickNodes(axid) ==
    <<Node("base", {"axes" \o axid, "x", "axis"}, ""),
      Node("base", {"axes" \o axid, "y", "axis"}, "")>>

RECURSIVE AppendedNodes(_, _, _, _)
AppendedNodes(b, a, g, instrs) ==
    IF instrs = <<>> THEN <<>>
    ELSE LET i == Head(instrs)
             here == /\ i.op = "append"
                     /\ ResolveAt(b, i.target, a) = g
         IN  (IF here THEN <<Node("clip", i.cls, "")>> ELSE <<>>)
             \o AppendedNodes(b, a, g, Tail(instrs))

RECURSIVE CanvasNodes(_)
CanvasNodes(instrs) ==
    IF instrs = <<>> THEN <<>>
    ELSE LET i == Head(instrs)
         IN  (IF i.target = "canvas"
              THEN <<Node("canvas", i.cls, i.text)>> ELSE <<>>)
             \o CanvasNodes(Tail(instrs))

(* func{figid}: every axes' preamble and initial draw, in order *)
Draw(b) ==
    LET n == Len(b.axes)
    IN  [scale  |-> [a \in 1..n |-> 0],
         groups |-> [g \in 1..n |->
                       TickNodes(b.axes[g].axid)
                       \o join([a \in 1..n |->
                                  AppendedNodes(b, a, g, b.axes[a].elements)])],
         canvas |-> join([a \in 1..n |-> CanvasNodes(b.axes[a].elements)])]

(* the nodes of group g an instruction's selection holds: select takes the *)
(* first match, selectAll every match; axes_ holds the clipped group only  *)
Selected(b, d, g, i) ==
    LET nodes == d.groups[g]
        M == {k \in 1..Len(nodes) :
                /\ i.cls \subseteq nodes[k].cls
                /\ (i.target = ClipVar(b.axes[g].axid) => nodes[k].grp = "clip")}
    IN  IF i.op = "selectAll" \/ M = {} THEN M
        ELSE {CHOOSE k \in M : \A m \in M : k <= m}

(* one instruction of a handler: the selected nodes are redrawn under the  *)
(* scales of the axes its variables name                                   *)
Exec(b, d, i) ==
    LET g == Resolve(b, i.target)
        S == Selected(b, d, g, i)
    IN  [d EXCEPT !.groups[g] =
            [k \in 1..Len(d.groups[g]) |->
                IF k \in S THEN [d.groups[g][k] EXCEPT !.ver = d.scale[g]]
                ELSE d.groups[g][k]]]

RECURSIVE RunHandler(_, _, _)
RunHandler(b, d, instrs) ==
    IF instrs = <<>> THEN [dom |-> d, log |-> <<>>]
    ELSE LET i == Head(instrs)
             g == Resolve(b, i.target)
             rest == RunHandler(b, Exec(b, d, i), Tail(instrs))
         IN  [dom |-> rest.dom,
              log |-> <<[group |-> g, instr |-> i,
                         hits |-> Cardinality(Selected(b, d, g, i))]>> \o rest.log]

(* the function the name zoomed{axid} stands for: a repeated function      *)
(* declaration replaces the earlier one                                    *)
Handler(b, a) ==
    LET S == {k \in 1..Len(b.axes) : b.axes[k].axid = b.axes[a].axid}
    IN  b.axes[CHOOSE k \in S : \A m \in S : m <= k].zoomed

----------------------------------------------------------------------------
(* The matplotlib figures the process may hold *)

Styles == {"", " ", "None", "none", NoneValue, "NONE", "  ", "-"}

Markers == {"", " ", "None", "none", NoneValue, "NONE", "  ", "o"}

Line(s, m) == [linestyle |-> s, marker |-> m]

Text(role, content) == [role |-> role, text |-> content]

(* a stroked line without markers, markers without a stroke *)
CoreLines == {Line("-", NoneValue), Line("none", "o")}

Lims == {<<0, 1>>, <<0, 0>>, <<1, 1>>}

SeqsUpTo(S, n) == UNION {[1..k -> S] : k \in 0..n}

DefaultAx ==
    [lines       |-> <<Line("-", NoneValue)>>,
     texts       |-> <<>>,
     xlabel      |-> Text("xlabel", ""),
     ylabel      |-> Text("ylabel", ""),
     title       |-> Text("title", ""),
     xgrid       |-> FALSE,
     ygrid       |-> FALSE,
     xlim        |-> <<0, 1>>,
     ylim        |-> <<0, 1>>,
     unsupported |-> [k \in Range(WarnAttrs) |-> 0],
     legend_     |-> NoneValue]

StyleAxes ==
    {[DefaultAx EXCEPT !.lines = <<Line(s, m)>>] : s \in Styles, m \in Markers}

GridAxes ==
    {[DefaultAx EXCEPT !.lines = ls, !.xgrid = xg, !.ygrid = yg] :
        ls \in SeqsUpTo(CoreLines, MaxLines), xg \in BOOLEAN, yg \in BOOLEAN}

TextAxes ==
    {[DefaultAx EXCEPT !.texts = [k \in 1..Len(ts) |-> Text("annotation", ts[k])],
                       !.xlabel = Text("xlabel", xl),
                       !.ylabel = Text("ylabel", yl),
                       !.title = Text("title", tl),
                       !.lines = <<Line("-", "o"), Line("-", NoneValue)>>,
                       !.xgrid = TRUE] :
        ts \in SeqsUpTo({"", "a"}, MaxTexts),
        xl \in {"", "x"}, yl \in {"", "y"}, tl \in {"", "T"}}

(* no kind, one kind (one or two items of it), two kinds, or all six, *)
(* with and without a legend                                          *)
UnsupportedAxes ==
    {[DefaultAx EXCEPT !.unsupported = [k \in Range(WarnAttrs) |->
                                          IF k \in S THEN n ELSE 0],
                       !.legend_ = lg] :
        S \in {T \in SUBSET Range(WarnAttrs) :
                 Cardinality(T) <= 2 \/ T = Range(WarnAttrs)},
        n \in 1..2, lg \in {NoneValue, "legend"}}

DomainAxes ==
    {[DefaultAx EXCEPT !.xlim = xl, !.ylim = yl] : xl \in Lims, yl \in Lims}

(* an axes with everything: two lines, a grid, an annotation, labels *)
FullAx ==
    [DefaultAx EXCEPT !.lines = <<Line("-", "o"), Line("-", NoneValue)>>,
                      !.texts = <<Text("annotation", "a")>>,
                      !.xlabel = Text("xlabel", "x"),
                      !.ylabel = Text("ylabel", "y"),
                      !.xgrid = TRUE]

MultiAxes ==
    <<[DefaultAx EXCEPT !.xgrid = TRUE],
      [DefaultAx EXCEPT !.lines = <<Line("none", "o")>>, !.ygrid = TRUE,
                        !.title = Text("title", "T"),
                        !.unsupported = [k \in Range(WarnAttrs) |->
                                           IF k = "images" THEN 1 ELSE 0]]>>

(* figures of several axes: the two kinds of MultiAxes in turn *)
MultiFigs ==
    {[axes |-> [i \in 1..n |-> MultiAxes[2 - (i % 2)]]] : n \in 2..MaxAxes}

(* the figures of the page specification: one axes with any lines and     *)
(* grid flags, one axes with everything, or several axes                   *)
FigInputs ==
    {[axes |-> <<ax>>] : ax \in GridAxes \cup {FullAx}} \cup MultiFigs

(* the figures of the export specification: one axes that varies in one   *)
(* respect, or several axes                                                *)
ExportFigInputs ==
    {[axes |-> <<ax>>] :
        ax \in StyleAxes \cup GridAxes \cup TextAxes \cup UnsupportedAxes
               \cup DomainAxes}
    \cup MultiFigs

(* figures of n axes with m lines each *)
IdFigInputs ==
    {[axes |-> [i \in 1..n |->
                  [DefaultAx EXCEPT !.lines = [j \in 1..m |-> Line("-", "o")]]]] :
        n \in 1..IdMaxAxes, m \in 0..IdMaxLines}

----------------------------------------------------------------------------
(* Operations *)

Init ==
    /\ fig \in FigInputs
    /\ rng \in PageRngStreams
    /\ figures = <<>>
    /\ warned = <<>>
    /\ bundles = <<>>
    /\ dom = <<>>
    /\ event = <<>>
    /\ log = <<>>

InitExport ==
    /\ fig \in ExportFigInputs
    /\ rng \in RngStreams
    /\ figures = <<>>
    /\ warned = <<>>
    /\ bundles = <<>>
    /\ dom = <<>>
    /\ event = <<>>
    /\ log = <<>>

InitIds ==
    /\ fig \in IdFigInputs
    /\ rng \in RngStreams
    /\ figures = <<>>
    /\ warned = <<>>
    /\ bundles = <<>>
    /\ dom = <<>>
    /\ event = <<>>
    /\ log = <<>>

(* D3Figure(fig): the figure, its axes and their elements, and the         *)
(* warnings the axes issue while they are constructed                      *)
NewFigure ==
    /\ Len(figures) < MaxFigs
    /\ figures' = Append(figures, D3Figure(generate_figid, fig))
    /\ rng' = Tail(rng)
    /\ warned' = warned \o join(Map(fig.axes, D3Axes_warnings))
    /\ bundles' = Append(bundles, <<>>)
    /\ dom' = Append(dom, <<>>)
    /\ UNCHANGED <<fig, event, log>>

(* figures[f].html() *)
Html(f) ==
    /\ bundles[f] = <<>>
    /\ bundles' = [bundles EXCEPT ![f] = <<D3Figure_html(figures[f])>>]
    /\ UNCHANGED <<fig, rng, figures, warned, dom, event, log>>

(* the page runs func{figid} of an exported script *)
RunScript(f) ==
    /\ bundles[f] # <<>>
    /\ dom[f] = <<>>
    /\ dom' = [dom EXCEPT ![f] = <<Draw(bundles[f][1])>>]
    /\ UNCHANGED <<fig, rng, figures, warned, bundles, event, log>>

(* a zoom event on the group of axes a of figure f: the zoom behaviour of  *)
(* that group rescales the axes' own scales and calls zoomed{axid}, which  *)
(* runs to its end.  A scale is 0 as first set up and 1 once rescaled, and *)
(* a node's ver is the scale it was last drawn under.                      *)
Zoomed(f, a) ==
    /\ dom[f] # <<>>
    /\ LET b == bundles[f][1]
           d == [dom[f][1] EXCEPT !.scale[a] = 1]
           r == RunHandler(b, d, Handler(b, a))
       IN  /\ dom' = [dom EXCEPT ![f] = <<r.dom>>]
           /\ log' = r.log
    /\ event' = <<[f |-> f, a |-> a]>>
    /\ UNCHANGED <<fig, rng, figures, warned, bundles>>

Next ==
    \/ NewFigure
    \/ \E f \in 1..Len(figures) : Html(f)
    \/ \E f \in 1..Len(figures) : RunScript(f)
    \/ \E f \in 1..Len(figures) : \E a \in 1..Len(figures[f].axes) : Zoomed(f, a)

Spec == Init /\ [][Next]_vars

NextExport ==
    \/ NewFigure
    \/ \E f \in 1..Len(figures) : Html(f)

SpecExport == InitExport /\ [][NextExport]_vars

NextIds == NewFigure

SpecIds == InitIds /\ [][NextIds]_vars

----------------------------------------------------------------------------
(* Vocabulary of the properties *)

AxesRefs == UNION {{<<f, a>> : a \in 1..Len(figures[f].axes)} :
                     f \in 1..Len(figures)}

AxesAt(r) == figures[r[1]].axes[r[2]]

Exported == {r \in AxesRefs : bundles[r[1]] # <<>>}

ScriptAt(r) == bundles[r[1]][1].axes[r[2]]

LineRefs == UNION {{<<r, j>> : j \in 1..Len(AxesAt(r).lines)} : r \in AxesRefs}

LineAt(q) == AxesAt(q[1]).lines[q[2]]

IsTick(i) == "axis" \in i.cls

IsGridInstr(i) == "grid" \in i.cls

IsTextInstr(i) == i.target = "canvas"

IsLineInstr(i) == ~IsTick(i) /\ ~IsGridInstr(i) /\ ~IsTextInstr(i)

Kind(i) == IF IsGridInstr(i) THEN "grid"
           ELSE IF IsTextInstr(i) THEN "text" ELSE "line"

(* the line of the axes whose id an instruction of a line carries *)
LineIndex(axes, i) ==
    CHOOSE j \in 1..Len(axes.lines) :
        LET id == axes.lines[j].lineid
        IN  \/ i.target \in {"data_" \o id, "line_" \o id}
            \/ i.cls \cap {"line" \o id, "points" \o id} # {}

(* instructions come kind by kind in the order rank gives, and those of    *)
(* lines in the lines' source order                                        *)
OrderedBy(instrs, axes, rank) ==
    \A i, j \in 1..Len(instrs) :
        i < j =>
            /\ rank[Kind(instrs[i])] <= rank[Kind(instrs[j])]
            /\ (IsLineInstr(instrs[i]) /\ IsLineInstr(instrs[j])
                  => LineIndex(axes, instrs[i]) <= LineIndex(axes, instrs[j]))

NotTick(i) == ~IsTick(i)

NonEmptyText(t) == t.text.text # ""

TextOf(t) == t.text.text

InstrText(i) == i.text

LogInstr(e) == e.instr

(* texts are drawn in the order annotations, x label, y label, title *)
TextsInOrder(instrs, axes) ==
    Map(SelectSeq(instrs, IsTextInstr), InstrText)
        = Map(SelectSeq(axes.texts, NonEmptyText), TextOf)

Draws(instrs, cls) == \E k \in 1..Len(instrs) :
                         instrs[k].op = "append" /\ cls \subseteq instrs[k].cls

Updates(instrs, cls) == \E k \in 1..Len(instrs) :
                           /\ instrs[k].op \in {"select", "selectAll"}
                           /\ ~IsTick(instrs[k])
                           /\ cls \subseteq instrs[k].cls

----------------------------------------------------------------------------
(* C1: no two distinct axes, of one figure or of different figures built   *)
(* in the process, have the same axes id, and no two distinct lines have   *)
(* the same line id, whatever the number of axes and of lines; an axes id  *)
(* is the figure id followed by the axes' 1-based index and a line id the  *)
(* axes id followed by the line's 1-based index.                           *)
C1_IdsUnique ==
    /\ \A r \in AxesRefs : AxesAt(r).axid = figures[r[1]].figid \o str(r[2])
    /\ \A q \in LineRefs : LineAt(q).lineid = AxesAt(q[1]).axid \o str(q[2])
    /\ \A r1, r2 \in AxesRefs : r1 # r2 => AxesAt(r1).axid # AxesAt(r2).axid
    /\ \A q1, q2 \in LineRefs : q1 # q2 => LineAt(q1).lineid # LineAt(q2).lineid

----------------------------------------------------------------------------
(* C2: in every run of an axes' zoom handler the x tick redraw and the y   *)
(* tick redraw both come strictly before the first update of any element   *)
(* of the axes.                                                            *)
C2_TicksBeforeElements ==
    event # <<>> =>
        /\ \E k \in 1..Len(log) : {"x", "axis"} \subseteq log[k].instr.cls
        /\ \E k \in 1..Len(log) : {"y", "axis"} \subseteq log[k].instr.cls
        /\ \A i, j \in 1..Len(log) :
              IsTick(log[i].instr) /\ ~IsTick(log[j].instr) => i < j

(* a handler has run that updated a grid and a line *)
C2_Witness ==
    /\ event # <<>>
    /\ \E k \in 1..Len(log) : IsGridInstr(log[k].instr)
    /\ \E k \in 1..Len(log) : IsLineInstr(log[k].instr)

----------------------------------------------------------------------------
(* C3, as stated: the initial draw and the zoom handler go through an      *)
(* axes' elements in the order lines (source order), texts, grid.          *)
C3_LinesTextsGrid ==
    LET rank == [line |-> 1, text |-> 2, grid |-> 3]
    IN  /\ \A r \in Exported :
            /\ OrderedBy(ScriptAt(r).elements, AxesAt(r), rank)
            /\ OrderedBy(SelectSeq(ScriptAt(r).zoomed, NotTick), AxesAt(r), rank)
        /\ event # <<>> =>
              OrderedBy(SelectSeq(Map(log, LogInstr), NotTick),
                        AxesAt(<<event[1].f, event[1].a>>), rank)

(* C3, amended: the initial draw and the zoom handler go through an axes'  *)
(* elements in the order grid, lines (source order), texts (annotations,   *)
(* x label, y label, title).                                               *)
C3_GridLinesTexts ==
    LET rank == [grid |-> 1, line |-> 2, text |-> 3]
    IN  /\ \A r \in Exported :
            /\ OrderedBy(ScriptAt(r).elements, AxesAt(r), rank)
            /\ TextsInOrder(ScriptAt(r).elements, AxesAt(r))
            /\ OrderedBy(SelectSeq(ScriptAt(r).zoomed, NotTick), AxesAt(r), rank)
        /\ event # <<>> =>
              OrderedBy(SelectSeq(Map(log, LogInstr), NotTick),
                        AxesAt(<<event[1].f, event[1].a>>), rank)

(* an exported axes draws a grid, two lines and two texts, and an axes     *)
(* with a grid and a line has handled a zoom event                         *)
C3_Witness ==
    /\ \E r \in Exported :
          LET e == ScriptAt(r).elements
          IN  /\ \E k \in 1..Len(e) : IsGridInstr(e[k])
              /\ \E k \in 1..Len(e) : IsLineInstr(e[k])
              /\ Len(SelectSeq(e, IsTextInstr)) >= 2
    /\ event # <<>>
    /\ \E k \in 1..Len(log) : IsGridInstr(log[k].instr)
    /\ \E k \in 1..Len(log) : IsLineInstr(log[k].instr)
    /\ Len(AxesAt(<<event[1].f, event[1].a>>).lines) >= 2

----------------------------------------------------------------------------
(* C4: a zoom event for axes A runs only A's handler: every instruction    *)
(* run addresses A's own tick axes or elements, and the rendered state of  *)
(* every other axes, of the same figure or of another, is unchanged.       *)
C4_ZoomTouchesOwnAxesOnly ==
    [][\A f \in 1..Len(figures) : \A a \in 1..Len(figures[f].axes) :
            Zoomed(f, a) =>
               /\ \A k \in 1..Len(log') :
                     /\ log'[k].group = a
                     /\ log'[k].instr.target \in
                           {BaseVar(figures[f].axes[a].axid),
                            ClipVar(figures[f].axes[a].axid)}
               /\ \A r \in AxesRefs :
                     (r # <<f, a>> /\ dom[r[1]] # <<>>) =>
                        /\ dom'[r[1]][1].groups[r[2]] = dom[r[1]][1].groups[r[2]]
                        /\ dom'[r[1]][1].scale[r[2]] = dom[r[1]][1].scale[r[2]]
               /\ \A g \in 1..Len(figures) :
                     dom[g] # <<>> => dom'[g][1].canvas = dom[g][1].canvas]_vars

(* an axes of a figure of two axes has handled a zoom event while another  *)
(* figure was drawn in the same page                                       *)
C4_Witness ==
    /\ event # <<>>
    /\ Len(figures[event[1].f].axes) >= 2
    /\ \E k \in 1..Len(log) : log[k].hits > 0 /\ ~IsTick(log[k].instr)
    /\ \E g \in 1..Len(figures) : g # event[1].f /\ dom[g] # <<>>

----------------------------------------------------------------------------
(* C5: constructing an axes that holds content of an unsupported kind      *)
(* never fails; it issues exactly one warning per unsupported kind the     *)
(* axes holds, naming the kind; and the axes built has the lines, texts    *)
(* and grid it would have without that content.                            *)

Holds(ax, kind) == IF kind = "legend" THEN ax.legend_ # NoneValue
                   ELSE ax.unsupported[kind] > 0

WithoutUnsupported(ax) ==
    [ax EXCEPT !.unsupported = [k \in Range(WarnAttrs) |-> 0],
               !.legend_ = NoneValue]

SameElements(a, c) ==
    /\ Len(a.lines) = Len(c.lines)
    /\ \A j \in 1..Len(a.lines) :
          a.lines[j].lineid = c.lines[j].lineid /\ a.lines[j].line = c.lines[j].line
    /\ Len(a.texts) = Len(c.texts)
    /\ \A j \in 1..Len(a.texts) : a.texts[j].text = c.texts[j].text
    /\ Len(a.grids) = 1 /\ Len(c.grids) = 1
    /\ a.grids[1].ax.xgrid = c.grids[1].ax.xgrid
    /\ a.grids[1].ax.ygrid = c.grids[1].ax.ygrid

C5_UnsupportedContentWarned ==
    /\ Len(figures) < MaxFigs => ENABLED NewFigure
    /\ \A kind \in Range(WarnAttrs) \cup {"legend"} :
          Cardinality({k \in 1..Len(warned) : warned[k] = kind})
            = Cardinality({r \in AxesRefs : Holds(AxesAt(r).ax, kind)})
    /\ \A r \in AxesRefs :
          LET a == AxesAt(r)
              c == D3Axes(figures[r[1]].figid, WithoutUnsupported(a.ax), r[2])
          IN  /\ SameElements(a, c)
              /\ Len(a.lines) = Len(a.ax.lines)
              /\ Len(a.texts) = Len(a.ax.texts) + 3
              /\ r \in Exported => ScriptAt(r) = D3Axes_html(c)

(* an axes holding two images and a legend has been built and exported *)
C5_Witness ==
    \E r \in Exported :
        /\ AxesAt(r).ax.unsupported["images"] = 2
        /\ AxesAt(r).ax.legend_ # NoneValue
        /\ \E k \in 1..Len(warned) : warned[k] = "images"
        /\ \E k \in 1..Len(warned) : warned[k] = "legend"

----------------------------------------------------------------------------
(* C6, as stated: has_line is false exactly when the line style is the     *)
(* empty string, a whitespace string, the token none in any letter case,   *)
(* or absent; has_points follows the same rule on the marker.              *)
NoStrokeAnyCase == {"", " ", "  ", "none", "None", "NONE", NoneValue}

C6_AnyCaseNone ==
    \A q \in LineRefs :
        /\ has_line(LineAt(q)) <=> LineAt(q).line.linestyle \notin NoStrokeAnyCase
        /\ has_points(LineAt(q)) <=> LineAt(q).line.marker \notin NoStrokeAnyCase

(* C6, amended: has_line is false exactly when the line style is one of    *)
(* the five values "", " ", "None", "none" and None, and true for every    *)
(* other style; has_points is the same rule on the marker, and neither     *)
(* depends on the other attribute.  What the line draws follows them.      *)
NoStrokeFive == {"", " ", "None", "none", NoneValue}

C6_FiveValues ==
    \A q \in LineRefs :
        LET l == LineAt(q)
        IN  /\ has_line(l) <=> l.line.linestyle \notin NoStrokeFive
            /\ has_points(l) <=> l.line.marker \notin NoStrokeFive
            /\ q[1] \in Exported =>
                  /\ Draws(ScriptAt(q[1]).elements, {"line" \o l.lineid})
                        <=> l.line.linestyle \notin NoStrokeFive
                  /\ Draws(ScriptAt(q[1]).elements, {"points" \o l.lineid})
                        <=> l.line.marker \notin NoStrokeFive

(* a line of style "none" and marker "o" is exported: markers, no stroke *)
C6_Witness ==
    \E q \in LineRefs :
        /\ LineAt(q).line = Line("none", "o")
        /\ ~has_line(LineAt(q)) /\ has_points(LineAt(q))
        /\ q[1] \in Exported
        /\ Draws(ScriptAt(q[1]).elements, {"points" \o LineAt(q).lineid})

----------------------------------------------------------------------------
(* C7: no scene graph is constructed, and no scale exported, for an axes   *)
(* whose x domain or y domain is degenerate (min equal to max).            *)
C7_DegenerateDomainRejected ==
    /\ \A r \in AxesRefs :
          AxesAt(r).ax.xlim[1] # AxesAt(r).ax.xlim[2]
          /\ AxesAt(r).ax.ylim[1] # AxesAt(r).ax.ylim[2]
    /\ \A r \in Exported :
          ScriptAt(r).xlim[1] # ScriptAt(r).xlim[2]
          /\ ScriptAt(r).ylim[1] # ScriptAt(r).ylim[2]

----------------------------------------------------------------------------
(* C8: the grid draws gridlines for x exactly when the x major-grid flag   *)
(* is set and for y exactly when the y flag is set, each whatever the      *)
(* other flag is.                                                          *)
C8_GridPerAxisFlag ==
    \A r \in Exported :
        /\ Draws(ScriptAt(r).elements, {"x", "grid"}) <=> AxesAt(r).ax.xgrid
        /\ Draws(ScriptAt(r).elements, {"y", "grid"}) <=> AxesAt(r).ax.ygrid

(* an exported axes with the x grid off and the y grid on draws y only *)
C8_Witness ==
    \E r \in Exported :
        /\ ~AxesAt(r).ax.xgrid /\ AxesAt(r).ax.ygrid
        /\ Draws(ScriptAt(r).elements, {"y", "grid"})
        /\ ~Draws(ScriptAt(r).elements, {"x", "grid"})

----------------------------------------------------------------------------
(* C9: a text of empty content draws nothing, whichever its role, and a    *)
(* text of non-empty content draws exactly one text instruction.           *)
C9_EmptyTextDrawsNothing ==
    \A r \in Exported :
        LET e == SelectSeq(ScriptAt(r).elements, IsTextInstr)
            texts == AxesAt(r).texts
        IN  /\ \A k \in 1..Len(e) : e[k].text # ""
            /\ Len(e) = Cardinality({k \in 1..Len(texts) : texts[k].text.text # ""})
            /\ \A role \in {"annotation", "xlabel", "ylabel", "title"} :
                  Cardinality({k \in 1..Len(texts) :
                                 texts[k].text.role = role /\ texts[k].text.text # ""})
                    = Cardinality({k \in 1..Len(e) :
                         e[k].text = (IF role = "annotation" THEN "a"
                                      ELSE IF role = "xlabel" THEN "x"
                                      ELSE IF role = "ylabel" THEN "y" ELSE "T")})

(* an exported axes has an empty annotation and an empty x label beside a  *)
(* y label and a title that are drawn                                      *)
C9_Witness ==
    \E r \in Exported :
        LET ax == AxesAt(r).ax
        IN  /\ Len(ax.texts) > 0 /\ ax.texts[1].text = ""
            /\ ax.xlabel.text = "" /\ ax.ylabel.text = "y" /\ ax.title.text = "T"
            /\ Len(SelectSeq(ScriptAt(r).elements, IsTextInstr)) = 2

----------------------------------------------------------------------------
(* C10: for every line and grid, the zoom handler updates a part (the      *)
(* line's stroke, the line's markers, the x gridlines, the y gridlines)    *)
(* exactly when the initial draw created it: every update a handler runs   *)
(* finds markup, and every drawn part of the zoomed axes is redrawn.       *)
C10_UpdateIffDrawn ==
    /\ \A r \in Exported :
          LET s == ScriptAt(r)
          IN  /\ \A j \in 1..Len(AxesAt(r).lines) :
                    LET id == AxesAt(r).lines[j].lineid
                    IN  /\ Updates(s.zoomed, {"line" \o id})
                              <=> Draws(s.elements, {"line" \o id})
                        /\ Updates(s.zoomed, {"points" \o id})
                              <=> Draws(s.elements, {"points" \o id})
              /\ Updates(s.zoomed, {"x", "grid"})
                    <=> Draws(s.elements, {"x", "grid"})
              /\ Updates(s.zoomed, {"y", "grid"})
                    <=> Draws(s.elements, {"y", "grid"})
    /\ event # <<>> =>
          /\ \A k \in 1..Len(log) : log[k].hits >= 1
          /\ LET nodes == dom[event[1].f][1].groups[event[1].a]
             IN  \A k \in 1..Len(nodes) : nodes[k].ver = 1

(* an axes with a stroked line, a markers-only line and the y grid alone   *)
(* has handled a zoom event                                                *)
C10_Witness ==
    /\ event # <<>>
    /\ LET ax == AxesAt(<<event[1].f, event[1].a>>).ax
       IN  /\ ~ax.xgrid /\ ax.ygrid
           /\ \E j \in 1..Len(ax.lines) : ax.lines[j] = Line("-", NoneValue)
           /\ \E j \in 1..Len(ax.lines) : ax.lines[j] = Line("none", "o")
    /\ Len(log) = 5

====
